---- MODULE Spec2Model ----
(***************************************************************************)
(* Model of the two batch programs of the attendance repository:           *)
(*   src/output.py  the monthly matrix builder (roster x calendar day)     *)
(*   src/test.py    the raw-log parser with optional per-minute dedup      *)
(* Strings are sequences of one-character strings, so that str.strip,      *)
(* str.lower, astype(str) and date formatting are computed, not assumed.   *)
(***************************************************************************)
EXTENDS Integers, Sequences, FiniteSets, TLC

VARIABLES
    prog,        \* which program this run is: "output" or "test"
    pc,          \* position of the run in main() / convert_raw_to_excel()
    err,         \* "none", or the fatal error that ended the run
    file,        \* the output path: "absent", "open" (created, empty) or a workbook
    attCols,     \* output.py: header of the attendance sheet as read
    attRaw,      \* output.py: rows of the attendance sheet as read
    namesWidth,  \* output.py: number of columns of the names sheet
    namesRaw,    \* output.py: rows of the names sheet as read
    month_filter,\* output.py: args.month, a string or None
    att,         \* output.py: attendance after normalize_attendance
    roster,      \* output.py: roster after normalize_names
    present_set, \* output.py: present_set returned by build_present_set
    months,      \* output.py: months returned by build_present_set
    sheets,      \* output.py: sheets handed to the writer so far
    text,        \* test.py: the raw text, as a sequence of lines
    dedupe,      \* test.py: args.dedupe_per_minute
    df           \* test.py: the event table

vars == <<prog, pc, err, file, attCols, attRaw, namesWidth, namesRaw, month_filter,
          att, roster, present_set, months, sheets, text, dedupe, df>>

matrixVars == <<attCols, attRaw, namesWidth, namesRaw, month_filter, att, roster,
                present_set, months, sheets>>

parserVars == <<text, dedupe, df>>

(***************************************************************************)
(* Bounds of the model.                                                    *)
(***************************************************************************)
MaxAtt == 2        \* attendance rows read
MaxRoster == 2     \* names rows read
MaxLines == 3      \* lines of raw text

(***************************************************************************)
(* Strings.                                                                *)
(***************************************************************************)
None == <<"None">>

DigitChar == <<"0", "1", "2", "3", "4", "5", "6", "7", "8", "9">>

DigitVal(c) == CHOOSE n \in 0..9 : DigitChar[n + 1] = c

IsSpace(c) == c = " "

RECURSIVE LStrip(_)
LStrip(s) == IF Len(s) > 0 /\ IsSpace(Head(s)) THEN LStrip(Tail(s)) ELSE s

RECURSIVE RStrip(_)
RStrip(s) ==
    IF Len(s) > 0 /\ IsSpace(s[Len(s)]) THEN RStrip(SubSeq(s, 1, Len(s) - 1)) ELSE s

\* str.strip()
Strip(s) == RStrip(LStrip(s))

LowerChar(c) ==
    CASE c = "D" -> "d"
      [] c = "E" -> "e"
      [] c = "I" -> "i"
      [] c = "M" -> "m"
      [] c = "P" -> "p"
      [] c = "T" -> "t"
      [] OTHER -> c

\* str.lower()
Lower(s) == [i \in 1..Len(s) |-> LowerChar(s[i])]

\* sub in s
Contains(sub, s) ==
    \E i \in 1..(Len(s) - Len(sub) + 1) : SubSeq(s, i, i + Len(sub) - 1) = sub

RECURSIVE IntStr(_)
\* str(n) for n >= 0
IntStr(n) == IF n < 10 THEN <<DigitChar[n + 1]>> ELSE IntStr(n \div 10) \o <<DigitChar[(n % 10) + 1]>>

RECURSIVE StrInt(_)
\* int(s) for a string of digits
StrInt(s) == IF Len(s) = 0 THEN 0 ELSE 10 * StrInt(SubSeq(s, 1, Len(s) - 1)) + DigitVal(s[Len(s)])

RECURSIVE ZeroPad(_, _)
\* zero-padded decimal of width w
ZeroPad(n, w) == IF Len(IntStr(n)) >= w THEN IntStr(n) ELSE <<"0">> \o ZeroPad(n, w - 1)

\* A spreadsheet cell holding text, and one holding a whole number.
StrCell(s) == [t |-> "str", v |-> s, n |-> 0]

IntCell(k) == [t |-> "int", v |-> <<>>, n |-> k]

\* Series.astype(str) on one cell
AsStr(cell) == IF cell.t = "int" THEN IntStr(cell.n) ELSE cell.v

(***************************************************************************)
(* Calendar.                                                               *)
(***************************************************************************)
NaT == [y |-> 0, m |-> 0, d |-> 0]

Date(y, m, d) == [y |-> y, m |-> m, d |-> d]

\* calendar.isleap
isleap(year) == year % 4 = 0 /\ (year % 100 # 0 \/ year % 400 = 0)

\* calendar.mdays
mdays == <<31, 28, 31, 30, 31, 30, 31, 31, 30, 31, 30, 31>>

\* a month length that forgets the leap day
days_in_month_no_leap(year, month) == mdays[month]

\* calendar.monthrange(year, month)[1]
days_in_month(year, month) == mdays[month] + (IF month = 2 /\ isleap(year) THEN 1 ELSE 0)

\* pd.to_datetime(cell, errors="coerce").dt.date on one date-like cell
to_datetime_date(cell) ==
    IF /\ cell.m \in 1..12 /\ cell.d >= 1
       /\ cell.d <= mdays[cell.m] + (IF cell.m = 2 /\ isleap(cell.y) THEN 1 ELSE 0)
    THEN Date(cell.y, cell.m, cell.d)
    ELSE NaT

\* str(date): ISO format YYYY-MM-DD
DateStr(d) == ZeroPad(d.y, 4) \o <<"-">> \o ZeroPad(d.m, 2) \o <<"-">> \o ZeroPad(d.d, 2)

month_key(d) == <<d.y, d.m>>

MonthAbbr ==
    <<"Jan", "Feb", "Mar", "Apr", "May", "Jun", "Jul", "Aug", "Sep", "Oct", "Nov", "Dec">>

\* pd.Timestamp(date(year, month, 1)).strftime("%b-%Y")
SheetName(year, month) == <<MonthAbbr[month], "-", ZeroPad(year, 4)>>

\* iter_calendar_month
iter_calendar_month(year, month) ==
    [d \in 1..days_in_month(year, month) |-> Date(year, month, d)]

(***************************************************************************)
(* src/output.py: the monthly matrix builder.                              *)
(***************************************************************************)
sDate == <<"d", "a", "t", "e">>

sTimestamp == <<"t", "i", "m", "e", "s", "t", "a", "m", "p">>

sEmployeeId == <<"e", "m", "p", "l", "o", "y", "e", "e", "_", "i", "d">>

sEmp == <<"e", "m", "p">>

sId == <<"i", "d">>

\* index of the first column called name, 0 when there is none
ColIndex(cols, name) ==
    IF \E i \in 1..Len(cols) : cols[i] = name
    THEN CHOOSE i \in 1..Len(cols) : cols[i] = name /\ \A j \in 1..(i - 1) : cols[j] # name
    ELSE 0

\* df.columns = [str(c).strip().lower() for c in df.columns]
NormCols(cols) == [i \in 1..Len(cols) |-> Lower(Strip(cols[i]))]

\* the column the dates are taken from: 'date', else 'timestamp', else 0 (ValueError)
DateSource(cols) ==
    IF ColIndex(cols, sDate) # 0 THEN ColIndex(cols, sDate) ELSE ColIndex(cols, sTimestamp)

\* [c for c in df.columns if "emp" in c and "id" in c]
IsCandidate(c) == Contains(sEmp, c) /\ Contains(sId, c)

\* the column the employee ids are taken from: 'employee_id', else candidates[0],
\* else 0 (ValueError)
IdSource(cols) ==
    IF ColIndex(cols, sEmployeeId) # 0
    THEN ColIndex(cols, sEmployeeId)
    ELSE IF \E i \in 1..Len(cols) : IsCandidate(cols[i])
         THEN CHOOSE i \in 1..Len(cols) :
                  IsCandidate(cols[i]) /\ \A j \in 1..(i - 1) : ~IsCandidate(cols[j])
         ELSE 0

\* the table normalize_attendance returns when it does not raise
normalize_attendance(cols, rows) ==
    [r \in 1..Len(rows) |->
        [employee_id |-> Strip(AsStr(rows[r][IdSource(NormCols(cols))])),
         date |-> to_datetime_date(rows[r][DateSource(NormCols(cols))])]]

RECURSIVE drop_duplicates_by_code(_)
\* a drop_duplicates(subset=["Employee Code"]) in place of drop_duplicates()
drop_duplicates_by_code(rows) ==
    IF Len(rows) = 0 THEN <<>>
    ELSE LET init == drop_duplicates_by_code(SubSeq(rows, 1, Len(rows) - 1))
             last == rows[Len(rows)]
         IN  IF \E i \in 1..Len(init) : init[i].code = last.code THEN init ELSE Append(init, last)

RECURSIVE drop_duplicates(_)
\* DataFrame.drop_duplicates(): keep the first of equal rows, in order
drop_duplicates(rows) ==
    IF Len(rows) = 0 THEN <<>>
    ELSE LET init == drop_duplicates(SubSeq(rows, 1, Len(rows) - 1))
             last == rows[Len(rows)]
         IN  IF \E i \in 1..Len(init) : init[i] = last THEN init ELSE Append(init, last)

\* the roster normalize_names returns when it does not raise
normalize_names(rows) ==
    drop_duplicates(
        [r \in 1..Len(rows) |->
            [code |-> Strip(AsStr(rows[r][1])), name |-> Strip(AsStr(rows[r][2]))]])

\* month_filter.split("-"), for a key with one dash
DashAt(s) == CHOOSE i \in 1..Len(s) : s[i] = "-" /\ \A j \in 1..(i - 1) : s[j] # "-"

FilterYear(s) == StrInt(SubSeq(s, 1, DashAt(s) - 1))

FilterMonth(s) == StrInt(SubSeq(s, DashAt(s) + 1, Len(s)))

\* a month filter that compares the year only
FilteredRowsYearOnly(a, mf) ==
    LET valid == SelectSeq(a, LAMBDA r : r.date # NaT)
    IN  IF mf # None /\ Len(mf) > 0
        THEN SelectSeq(valid, LAMBDA r : r.date.y = FilterYear(mf))
        ELSE valid

\* build_present_set: the rows left after dropna and the month filter
FilteredRows(a, mf) ==
    LET valid == SelectSeq(a, LAMBDA r : r.date # NaT)
    IN  IF mf # None /\ Len(mf) > 0
        THEN SelectSeq(valid, LAMBDA r : r.date.y = FilterYear(mf) /\ r.date.m = FilterMonth(mf))
        ELSE valid

\* the tuple order with the month compared before the year
MonthLessByMonth(a, b) == a[2] < b[2] \/ (a[2] = b[2] /\ a[1] < b[1])

\* tuple order of (year, month)
MonthLess(a, b) == a[1] < b[1] \/ (a[1] = b[1] /\ a[2] < b[2])

RECURSIVE Sorted(_)
\* sorted(S) for a set of (year, month) tuples
Sorted(S) ==
    IF S = {} THEN <<>>
    ELSE LET lo == CHOOSE x \in S : \A z \in S : z = x \/ MonthLess(x, z)
         IN  <<lo>> \o Sorted(S \ {lo})

\* months = sorted({month_key(d) for d in df["date"]})
DiscoverMonths(a, mf) ==
    LET rows == FilteredRows(a, mf)
    IN  Sorted({month_key(rows[i].date) : i \in 1..Len(rows)})

\* present_set = set(zip(employee_id stripped, date as str)) over the groups
BuildPresentSet(a, mf) ==
    LET rows == FilteredRows(a, mf)
    IN  {<<Strip(rows[i].employee_id), DateStr(rows[i].date)>> : i \in 1..Len(rows)}

\* a lookup with str(d) of the Timestamp in place of str(d.date())
SheetCellTimestampStr(row, d, ps) ==
    IF <<Strip(row.code), DateStr(d) \o <<" ", "0", "0", ":", "0", "0", ":", "0", "0">> >> \in ps
    THEN "P"
    ELSE ""

\* the cell make_sheet leaves at (roster row, day column)
SheetCell(row, d, ps) == IF <<Strip(row.code), DateStr(d)>> \in ps THEN "P" ELSE ""

\* make_sheet: the sheet handed to the writer
make_sheet(ros, year, month, ps) ==
    LET all_dates == iter_calendar_month(year, month)
    IN  [name |-> SheetName(year, month),
         days |-> all_dates,
         rows |-> [i \in 1..Len(ros) |->
                     [code |-> ros[i].code,
                      name |-> ros[i].name,
                      cells |-> [j \in 1..Len(all_dates) |-> SheetCell(ros[i], all_dates[j], ps)]]]]

\* roster.to_excel(writer, sheet_name="NoData")
NoDataSheet(ros) ==
    [name |-> <<"NoData">>,
     days |-> <<>>,
     rows |-> [i \in 1..Len(ros) |-> [code |-> ros[i].code, name |-> ros[i].name, cells |-> <<>>]]]

Absent == [state |-> "absent", sheets |-> <<>>]

Opened == [state |-> "open", sheets |-> <<>>]

Written(ss) == [state |-> "written", sheets |-> ss]

(***************************************************************************)
(* Inputs of a run of output.py.                                           *)
(***************************************************************************)
E1 == <<"E", "1">>

E2 == <<"E", "2">>

RawDate(y, m, d) == [t |-> "date", y |-> y, m |-> m, d |-> d]

\* rows of the attendance sheet: (employee id cell, date cell)
AttRowChoices ==
    { <<StrCell(<<" ">> \o E1 \o <<" ">>), RawDate(2025, 9, 17)>>,
      <<StrCell(E1), RawDate(2024, 12, 31)>>,
      <<StrCell(E2), RawDate(2025, 2, 28)>>,
      <<IntCell(7), RawDate(2024, 2, 29)>>,
      <<StrCell(E1), RawDate(2025, 2, 30)>> }

\* rows of the names sheet: (employee code cell, employee name cell)
NamesRowChoices ==
    { <<StrCell(E1), StrCell(<<"A", "n", "n">>)>>,
      <<StrCell(<<" ">> \o E1), StrCell(<<"A", "n", "n", " ">>)>>,
      <<StrCell(E1), StrCell(<<"B", "o", "b">>)>>,
      <<IntCell(7), StrCell(<<"C", "y">>)>> }

MonthChoices ==
    { None,
      <<"2", "0", "2", "5", "-", "0", "9">> }

IdColumnNames ==
    { sEmployeeId,
      <<" ", "E", "m", "p", " ", "I", "D">>,
      <<"n", "a", "m", "e">> }

DateColumnNames ==
    { sDate,
      <<"D", "a", "t", "e", " ">>,
      <<"T", "i", "m", "e", "s", "t", "a", "m", "p">>,
      <<"d", "a", "y">> }

SeqsUpTo(S, n) == UNION {[1..k -> S] : k \in 0..n}

InitMatrix ==
    /\ prog = "output"
    /\ pc = "read"
    /\ err = "none"
    /\ file = Absent
    /\ \/ /\ attCols = <<sEmployeeId, sDate>>
          /\ attRaw \in SeqsUpTo(AttRowChoices, MaxAtt)
          /\ namesWidth = 2
          /\ namesRaw \in SeqsUpTo(NamesRowChoices, MaxRoster)
          /\ month_filter \in MonthChoices
       \/ /\ attCols \in {<<a, b>> : a \in IdColumnNames, b \in DateColumnNames}
          /\ attRaw = << <<StrCell(E1), RawDate(2024, 12, 31)>> >>
          /\ namesWidth \in {1, 2}
          /\ namesRaw = << SubSeq(<<StrCell(E1), StrCell(<<"A", "n", "n">>)>>, 1, namesWidth) >>
          /\ month_filter = None
    /\ att = <<>>
    /\ roster = <<>>
    /\ present_set = {}
    /\ months = <<>>
    /\ sheets = <<>>
    /\ text = <<>>
    /\ dedupe = FALSE
    /\ df = <<>>

Fail(e) ==
    /\ pc' = "failed"
    /\ err' = e

\* main: att = normalize_attendance(att)
NormalizeAttendance ==
    /\ prog = "output" /\ pc = "read"
    /\ IF DateSource(NormCols(attCols)) = 0
       THEN Fail("ValueError: no date or timestamp column") /\ UNCHANGED att
       ELSE IF IdSource(NormCols(attCols) \o <<sDate>>) = 0
            THEN Fail("ValueError: no employee_id column") /\ UNCHANGED att
            ELSE /\ att' = normalize_attendance(attCols, attRaw)
                 /\ pc' = "att_ok"
                 /\ UNCHANGED err
    /\ UNCHANGED <<prog, file, attCols, attRaw, namesWidth, namesRaw, month_filter,
                   roster, present_set, months, sheets, parserVars>>

\* main: roster = normalize_names(names)
NormalizeNames ==
    /\ prog = "output" /\ pc = "att_ok"
    /\ IF namesWidth < 2
       THEN Fail("ValueError: names file has fewer than two columns") /\ UNCHANGED roster
       ELSE /\ roster' = normalize_names(namesRaw)
            /\ pc' = "names_ok"
            /\ UNCHANGED err
    /\ UNCHANGED <<prog, file, attCols, attRaw, namesWidth, namesRaw, month_filter,
                   att, present_set, months, sheets, parserVars>>

\* main: present_set, months = build_present_set(att, args.month)
BuildPresent ==
    /\ prog = "output" /\ pc = "names_ok"
    /\ present_set' = BuildPresentSet(att, month_filter)
    /\ months' = DiscoverMonths(att, month_filter)
    /\ pc' = "built"
    /\ UNCHANGED <<prog, err, file, attCols, attRaw, namesWidth, namesRaw, month_filter,
                   att, roster, sheets, parserVars>>

\* main: with pd.ExcelWriter(args.output, ...) as writer  (either branch)
OpenWriter ==
    /\ prog = "output" /\ pc = "built"
    /\ file' = Opened
    /\ pc' = "writing"
    /\ UNCHANGED <<prog, err, matrixVars, parserVars>>

\* main, if not months: roster.to_excel(writer, sheet_name="NoData")
WriteNoData ==
    /\ prog = "output" /\ pc = "writing"
    /\ months = <<>> /\ sheets = <<>>
    /\ sheets' = <<NoDataSheet(roster)>>
    /\ UNCHANGED <<prog, pc, err, file, attCols, attRaw, namesWidth, namesRaw,
                   month_filter, att, roster, present_set, months, parserVars>>

\* main, for (yr, mo) in months: make_sheet(writer, roster, yr, mo, present_set)
MakeSheet ==
    /\ prog = "output" /\ pc = "writing"
    /\ Len(sheets) < Len(months)
    /\ LET ym == months[Len(sheets) + 1]
       IN  sheets' = Append(sheets, make_sheet(roster, ym[1], ym[2], present_set))
    /\ UNCHANGED <<prog, pc, err, file, attCols, attRaw, namesWidth, namesRaw,
                   month_filter, att, roster, present_set, months, parserVars>>

\* main: leaving the with block saves the workbook
CloseWriter ==
    /\ prog = "output" /\ pc = "writing"
    /\ \/ months = <<>> /\ Len(sheets) = 1
       \/ months # <<>> /\ Len(sheets) = Len(months)
    /\ file' = Written(sheets)
    /\ pc' = "done"
    /\ UNCHANGED <<prog, err, matrixVars, parserVars>>

NextMatrix ==
    \/ NormalizeAttendance
    \/ NormalizeNames
    \/ BuildPresent
    \/ OpenWriter
    \/ WriteNoData
    \/ MakeSheet
    \/ CloseWriter

SpecMatrix == InitMatrix /\ [][NextMatrix]_vars

(***************************************************************************)
(* src/test.py: the raw-log parser.                                        *)
(***************************************************************************)
\* A timestamp as matched by PATTERN: six groups of digits, not yet validated.
RawTs(y, m, d, hh, mi, ss) == [y |-> y, m |-> m, d |-> d, hh |-> hh, mi |-> mi, ss |-> ss]

NaTs == RawTs(0, 0, 0, 0, 0, 0)

\* pd.to_datetime(s, errors="coerce") on one matched timestamp
to_datetime(ts) ==
    IF /\ ts.m \in 1..12 /\ ts.d >= 1
       /\ ts.d <= mdays[ts.m] + (IF ts.m = 2 /\ isleap(ts.y) THEN 1 ELSE 0)
       /\ ts.hh < 24 /\ ts.mi < 60 /\ ts.ss < 60
    THEN ts
    ELSE NaTs

\* Series.dt.floor("T")
FloorMinute(ts) == [ts EXCEPT !.ss = 0]

TsKey(ts) == <<ts.y, ts.m, ts.d, ts.hh, ts.mi, ts.ss>>

RECURSIVE LexLess(_, _)
LexLess(a, b) ==
    /\ Len(a) > 0 /\ Len(b) > 0
    /\ \/ Head(a) < Head(b)
       \/ Head(a) = Head(b) /\ LexLess(Tail(a), Tail(b))

\* largest value of numpy int64, as decimal digits
Int64MaxDigits ==
    <<"9", "2", "2", "3", "3", "7", "2", "0", "3", "6", "8", "5", "4", "7", "7", "5", "8", "0", "7">>

RECURSIVE StripZeros(_)
StripZeros(s) == IF Len(s) > 1 /\ Head(s) = "0" THEN StripZeros(Tail(s)) ELSE s

DigitKey(s) == [i \in 1..Len(s) |-> DigitVal(s[i])]

\* int(s) does not fit numpy int64: astype(int) raises OverflowError
OverflowsInt64(s) ==
    LET z == StripZeros(s)
    IN  \/ Len(z) > Len(Int64MaxDigits)
        \/ Len(z) = Len(Int64MaxDigits) /\ LexLess(DigitKey(Int64MaxDigits), DigitKey(z))

\* PATTERN.findall(text): the scan records of the text, in text order
FindAll(t) == SelectSeq(t, LAMBDA l : l.kind = "scan")

\* the typed rows of parse_attendance_text before dropna and sort
TypedRows(matches) ==
    [i \in 1..Len(matches) |->
        [employee_id |-> StrInt(matches[i].emp),
         timestamp |-> to_datetime(matches[i].ts),
         signal_1 |-> StrInt(matches[i].s1),
         signal_2 |-> StrInt(matches[i].s2)]]

\* a sort key that leaves out employee_id
RowKeyTimestampOnly(by, r) == TsKey(r.timestamp)

\* sort key of a row for sort_values(by)
RowKey(by, r) ==
    IF by = "timestamp,employee_id"
    THEN TsKey(r.timestamp) \o <<r.employee_id>>
    ELSE <<r.employee_id>> \o TsKey(r.timestamp)

RECURSIVE sort_values(_, _)
\* DataFrame.sort_values(by) on several columns: a stable sort
sort_values(rows, by) ==
    IF Len(rows) = 0 THEN <<>>
    ELSE LET init == sort_values(SubSeq(rows, 1, Len(rows) - 1), by)
             last == rows[Len(rows)]
             k    == Cardinality({i \in 1..Len(init) : ~LexLess(RowKey(by, last), RowKey(by, init[i]))})
         IN  SubSeq(init, 1, k) \o <<last>> \o SubSeq(init, k + 1, Len(init))

\* parse_attendance_text, when it does not raise
parse_attendance_text(t) ==
    sort_values(SelectSeq(TypedRows(FindAll(t)), LAMBDA r : r.timestamp # NaTs),
                "timestamp,employee_id")

RECURSIVE drop_minute_duplicates_keep_last(_)
\* drop_duplicates(..., keep="last")
drop_minute_duplicates_keep_last(rows) ==
    IF Len(rows) = 0 THEN <<>>
    ELSE LET rest  == drop_minute_duplicates_keep_last(Tail(rows))
             first == Head(rows)
         IN  IF \E i \in 1..Len(rest) :
                    /\ rest[i].employee_id = first.employee_id
                    /\ FloorMinute(rest[i].timestamp) = FloorMinute(first.timestamp)
             THEN rest
             ELSE <<first>> \o rest

\* df[df.duplicated(subset=["employee_id", "minute"])]: the mask not negated
keep_duplicated(rows) ==
    LET dup == {i \in 1..Len(rows) :
                   \E k \in 1..(i - 1) :
                       /\ rows[k].employee_id = rows[i].employee_id
                       /\ FloorMinute(rows[k].timestamp) = FloorMinute(rows[i].timestamp)}
        RECURSIVE Pick(_)
        Pick(n) == IF n = 0 THEN <<>>
                   ELSE IF n \in dup THEN Append(Pick(n - 1), rows[n]) ELSE Pick(n - 1)
    IN  Pick(Len(rows))

RECURSIVE drop_minute_duplicates(_)
\* drop_duplicates(subset=["employee_id", "minute"], keep="first")
drop_minute_duplicates(rows) ==
    IF Len(rows) = 0 THEN <<>>
    ELSE LET init == drop_minute_duplicates(SubSeq(rows, 1, Len(rows) - 1))
             last == rows[Len(rows)]
         IN  IF \E i \in 1..Len(init) :
                    /\ init[i].employee_id = last.employee_id
                    /\ FloorMinute(init[i].timestamp) = FloorMinute(last.timestamp)
             THEN init
             ELSE Append(init, last)

dedupe_per_minute(rows) ==
    sort_values(drop_minute_duplicates(sort_values(rows, "employee_id,timestamp")),
                "timestamp,employee_id")

\* split_datetime: the columns of the written table
split_datetime(rows) ==
    [i \in 1..Len(rows) |->
        [employee_id |-> rows[i].employee_id,
         timestamp |-> rows[i].timestamp,
         date |-> Date(rows[i].timestamp.y, rows[i].timestamp.m, rows[i].timestamp.d),
         time |-> <<rows[i].timestamp.hh, rows[i].timestamp.mi, rows[i].timestamp.ss>>,
         signal_1 |-> rows[i].signal_1,
         signal_2 |-> rows[i].signal_2]]

(***************************************************************************)
(* Inputs of a run of test.py.                                             *)
(***************************************************************************)
Scan(emp, ts, s1, s2) == [kind |-> "scan", emp |-> emp, ts |-> ts, s1 |-> s1, s2 |-> s2]

Junk == [kind |-> "junk", emp |-> <<>>, ts |-> NaTs, s1 |-> <<>>, s2 |-> <<>>]

Emp7 == <<"7">>

Emp13 == <<"1", "3">>

EmpHuge == [i \in 1..20 |-> "9"]

LineChoices ==
    { Scan(Emp7, RawTs(2025, 9, 1, 7, 18, 5), <<"1">>, <<"0">>),
      Scan(Emp7, RawTs(2025, 9, 1, 7, 18, 47), <<"0">>, <<"1">>),
      Scan(Emp13, RawTs(2025, 9, 1, 7, 18, 5), <<"1">>, <<"0">>),
      Scan(Emp13, RawTs(2025, 9, 1, 7, 18, 5), <<"0">>, <<"1">>),
      Scan(Emp13, RawTs(2025, 9, 1, 7, 18, 47), <<"1">>, <<"0">>),
      Scan(Emp13, RawTs(2025, 9, 1, 7, 19, 5), <<"1">>, <<"0">>),
      Scan(Emp13, RawTs(2025, 9, 1, 7, 18, 99), <<"1">>, <<"0">>),
      Scan(EmpHuge, RawTs(2025, 9, 1, 7, 18, 5), <<"1">>, <<"0">>),
      Junk }

InitParser ==
    /\ prog = "test"
    /\ pc = "read"
    /\ err = "none"
    /\ file = Absent
    /\ text \in SeqsUpTo(LineChoices, MaxLines)
    /\ dedupe \in BOOLEAN
    /\ df = <<>>
    /\ attCols = <<>>
    /\ attRaw = <<>>
    /\ namesWidth = 0
    /\ namesRaw = <<>>
    /\ month_filter = None
    /\ att = <<>>
    /\ roster = <<>>
    /\ present_set = {}
    /\ months = <<>>
    /\ sheets = <<>>

\* a Parse that runs with the output file already open
ParseIntoOpenFile ==
    /\ prog = "test" /\ pc = "read"
    /\ file' = Opened
    /\ IF Len(FindAll(text)) = 0
       THEN Fail("ValueError: no attendance records matched") /\ UNCHANGED df
       ELSE /\ df' = parse_attendance_text(text)
            /\ pc' = "parsed"
            /\ UNCHANGED err
    /\ UNCHANGED <<prog, text, dedupe, matrixVars>>

\* convert_raw_to_excel: df = parse_attendance_text(text)
Parse ==
    /\ prog = "test" /\ pc = "read"
    /\ IF Len(FindAll(text)) = 0
       THEN Fail("ValueError: no attendance records matched") /\ UNCHANGED df
       ELSE IF \E i \in 1..Len(FindAll(text)) : OverflowsInt64(FindAll(text)[i].emp)
            THEN Fail("OverflowError: employee_id does not fit int64") /\ UNCHANGED df
            ELSE /\ df' = parse_attendance_text(text)
                 /\ pc' = "parsed"
                 /\ UNCHANGED err
    /\ UNCHANGED <<prog, file, text, dedupe, matrixVars>>

\* convert_raw_to_excel: if use_dedupe_minute: df = dedupe_per_minute(df)
Dedupe ==
    /\ prog = "test" /\ pc = "parsed" /\ dedupe
    /\ df' = dedupe_per_minute(df)
    /\ pc' = "deduped"
    /\ UNCHANGED <<prog, err, file, text, dedupe, matrixVars>>

\* convert_raw_to_excel: df = split_datetime(df)
SplitDatetime ==
    /\ prog = "test"
    /\ \/ pc = "parsed" /\ ~dedupe
       \/ pc = "deduped"
    /\ df' = split_datetime(df)
    /\ pc' = "split"
    /\ UNCHANGED <<prog, err, file, text, dedupe, matrixVars>>

\* convert_raw_to_excel: with pd.ExcelWriter(output_path, ...) as writer
OpenAttendanceWriter ==
    /\ prog = "test" /\ pc = "split"
    /\ file' = Opened
    /\ pc' = "writing"
    /\ UNCHANGED <<prog, err, parserVars, matrixVars>>

\* convert_raw_to_excel: df.to_excel(writer, sheet_name="Attendance"), then save
WriteAttendance ==
    /\ prog = "test" /\ pc = "writing"
    /\ file' = Written(<<[name |-> <<"Attendance">>, rows |-> df]>>)
    /\ pc' = "done"
    /\ UNCHANGED <<prog, err, parserVars, matrixVars>>

NextParser ==
    \/ Parse
    \/ Dedupe
    \/ SplitDatetime
    \/ OpenAttendanceWriter
    \/ WriteAttendance

SpecParser == InitParser /\ [][NextParser]_vars

(***************************************************************************)
(* The two programs together: a run is a run of one of them.               *)
(***************************************************************************)
Init == InitMatrix \/ InitParser

Next == NextMatrix \/ NextParser

Spec == Init /\ [][Next]_vars

(***************************************************************************)
(* Properties of the matrix builder, stated over the sheets as read.       *)
(***************************************************************************)
\* the attendance columns of row k as the properties read them
RawId(k) == Strip(AsStr(attRaw[k][1]))

RawDay(k) == to_datetime_date(attRaw[k][2])

HasFilter == month_filter # None

\* attendance rows with a parseable date that pass the month filter
PassRows ==
    {k \in 1..Len(attRaw) :
        /\ RawDay(k) # NaT
        /\ HasFilter => (RawDay(k).y = FilterYear(month_filter) /\ RawDay(k).m = FilterMonth(month_filter))}

MonthSheets == SelectSeq(file.sheets, LAMBDA sh : sh.name # <<"NoData">>)

SheetMonth(sh) == <<sh.days[1].y, sh.days[1].m>>

MonthNumber(ym) == ym[1] * 12 + ym[2]

\* C1: in every month sheet, with or without a month filter, the cell of roster row r
\* and day column d is "P" iff some attendance row with a parseable date has the same
\* trimmed string employee id as r's trimmed Employee Code and the date d; else it is "".
C1_PresenceIff ==
    (prog = "output" /\ pc = "done") =>
        LET id  == [k \in 1..Len(attRaw) |-> RawId(k)]
            day == [k \in 1..Len(attRaw) |-> RawDay(k)]
            out == file.sheets
        IN  \A s \in 1..Len(out) : \A i \in 1..Len(out[s].rows) :
                LET row  == out[s].rows[i]
                    code == Strip(row.code)
                IN  \A j \in 1..Len(out[s].days) :
                        LET d   == out[s].days[j]
                            has == \E k \in 1..Len(attRaw) :
                                       day[k] # NaT /\ id[k] = code /\ day[k] = d
                        IN  row.cells[j] = IF has THEN "P" ELSE ""

\* a finished workbook where a padded attendance id marked a cell and a row stayed blank
C1_Witness ==
    /\ prog = "output" /\ pc = "done" /\ HasFilter
    /\ \E s \in 1..Len(sheets) : \E i \in 1..Len(sheets[s].rows) : \E j \in 1..Len(sheets[s].days) :
          /\ sheets[s].rows[i].cells[j] = "P"
          /\ \E k \in 1..Len(attRaw) :
                /\ AsStr(attRaw[k][1]) # RawId(k)
                /\ RawId(k) = sheets[s].rows[i].code
                /\ RawDay(k) = sheets[s].days[j]
          /\ \E i2 \in 1..Len(sheets[s].rows) :
                \A j2 \in 1..Len(sheets[s].days) : sheets[s].rows[i2].cells[j2] = ""

\* the names rows as the properties read them
RosterPair(k) == [code |-> Strip(AsStr(namesRaw[k][1])), name |-> Strip(AsStr(namesRaw[k][2]))]

FirstAt(p) ==
    CHOOSE k \in 1..Len(namesRaw) : RosterPair(k) = p /\ \A j \in 1..(k - 1) : RosterPair(j) # p

RowPairs(sh) == [i \in 1..Len(sh.rows) |-> [code |-> sh.rows[i].code, name |-> sh.rows[i].name]]

\* C2: the rows of every sheet (month sheets and NoData) are exactly the names rows
\* deduplicated by trimmed (code, name) pair, in roster order: one row per distinct
\* pair whether or not it has attendance, and none for attendance-only ids.
C2_RosterRows ==
    (prog = "output" /\ pc = "done") =>
        /\ Len(file.sheets) >= 1
        /\ \A s \in 1..Len(file.sheets) :
               LET R == RowPairs(file.sheets[s])
               IN  /\ {R[i] : i \in 1..Len(R)} = {RosterPair(k) : k \in 1..Len(namesRaw)}
                   /\ \A a \in 1..Len(R) : \A b \in 1..Len(R) :
                          a < b => R[a] # R[b] /\ FirstAt(R[a]) < FirstAt(R[b])

\* a month sheet with fewer rows than names rows, a same-code pair kept twice or an
\* all-blank row, and an attendance id that is in no roster row
C2_Witness ==
    /\ prog = "output" /\ pc = "done"
    /\ \E s \in 1..Len(sheets) :
          /\ Len(sheets[s].days) > 0
          /\ Len(sheets[s].rows) >= 1
          /\ Len(sheets[s].rows) < Len(namesRaw)
          /\ \E k \in PassRows : \A i \in 1..Len(sheets[s].rows) : sheets[s].rows[i].code # RawId(k)
          /\ \E i \in 1..Len(sheets[s].rows) :
                \A j \in 1..Len(sheets[s].days) : sheets[s].rows[i].cells[j] = ""

\* C3: the month sheets written are exactly the distinct (year, month) pairs of the
\* attendance rows with a parseable date that pass the filter, one sheet each, in
\* strictly ascending chronological order; unparseable rows add no month and no
\* presence-set entry.
C3_MonthSheets ==
    (prog = "output" /\ pc = "done") =>
        LET pass == PassRows
            ms   == MonthSheets
            at   == [i \in 1..Len(ms) |-> SheetMonth(ms[i])]
        IN  /\ Len(ms) = Cardinality({<<RawDay(k).y, RawDay(k).m>> : k \in pass})
            /\ {at[i] : i \in 1..Len(ms)} = {<<RawDay(k).y, RawDay(k).m>> : k \in pass}
            /\ \A a \in 1..Len(ms) : \A b \in 1..Len(ms) :
                   a < b => MonthNumber(at[a]) < MonthNumber(at[b])
            /\ present_set = {<<RawId(k), DateStr(RawDay(k))>> : k \in pass}

\* two sheets written whose months are in calendar order only because of the year
C3_Witness ==
    /\ prog = "output" /\ pc = "done"
    /\ Len(MonthSheets) = 2
    /\ SheetMonth(MonthSheets[1])[2] > SheetMonth(MonthSheets[2])[2]

\* C4: with a month filter the workbook has exactly one sheet: the filtered month's
\* sheet when a valid-date row falls in it, else NoData with only the two roster
\* columns; every presence-set entry has a date inside the filtered month.
C4_MonthFilter ==
    (prog = "output" /\ pc = "done" /\ HasFilter) =>
        LET fy == FilterYear(month_filter)
            fm == FilterMonth(month_filter)
            hasData == \E k \in 1..Len(attRaw) :
                           RawDay(k) # NaT /\ RawDay(k).y = fy /\ RawDay(k).m = fm
            sh == file.sheets[1]
        IN  /\ Len(file.sheets) = 1
            /\ IF hasData
               THEN /\ sh.name = SheetName(fy, fm)
                    /\ Len(sh.days) > 0
                    /\ \A j \in 1..Len(sh.days) : sh.days[j].y = fy /\ sh.days[j].m = fm
               ELSE /\ sh.name = <<"NoData">>
                    /\ sh.days = <<>>
                    /\ \A i \in 1..Len(sh.rows) : sh.rows[i].cells = <<>>
            /\ \A p \in present_set :
                   \E k \in 1..Len(attRaw) :
                       /\ RawDay(k) # NaT /\ RawDay(k).y = fy /\ RawDay(k).m = fm
                       /\ p[2] = DateStr(RawDay(k))

\* a filtered run that wrote the month's sheet although other months had data
C4_Witness ==
    /\ prog = "output" /\ pc = "done" /\ HasFilter
    /\ Len(file.sheets) = 1 /\ file.sheets[1].name # <<"NoData">>
    /\ \E k \in 1..Len(attRaw) : RawDay(k) # NaT /\ k \notin PassRows

\* a filtered run whose data all lies in other months: NoData
C4_WitnessNoData ==
    /\ prog = "output" /\ pc = "done" /\ HasFilter
    /\ file.sheets[1].name = <<"NoData">>
    /\ \E k \in 1..Len(attRaw) : RawDay(k) # NaT

\* days since 1970-01-01 of a proleptic Gregorian date (civil-from-days arithmetic)
DaysFromCivil(y, m, d) ==
    LET yy  == IF m <= 2 THEN y - 1 ELSE y
        era == yy \div 400
        yoe == yy - era * 400
        mp  == IF m > 2 THEN m - 3 ELSE m + 9
        doy == (153 * mp + 2) \div 5 + d - 1
        doe == yoe * 365 + yoe \div 4 - yoe \div 100 + doy
    IN  era * 146097 + doe - 719468

\* length of a month as the distance between two first-of-month dates
GregorianLength(y, m) ==
    (IF m = 12 THEN DaysFromCivil(y + 1, 1, 1) ELSE DaysFromCivil(y, m + 1, 1))
        - DaysFromCivil(y, m, 1)

\* C5: the day columns of the sheet of (year, month) are the days 1..N of that month
\* in ascending order, N the proleptic Gregorian length of the month, and every row
\* has N day cells next to its two roster columns.
C5_CalendarDays ==
    (prog = "output" /\ pc = "done") =>
        LET ms == MonthSheets
        IN  /\ Len(ms) = Len(months)
            /\ \A s \in 1..Len(ms) :
                   LET ym == months[s]
                       N  == GregorianLength(ym[1], ym[2])
                   IN  /\ ms[s].days = [d \in 1..N |-> Date(ym[1], ym[2], d)]
                       /\ \A i \in 1..Len(ms[s].rows) : Len(ms[s].rows[i].cells) = N

\* a workbook with the sheets of February 2024 (29 days) and February 2025 (28 days)
C5_Witness ==
    /\ prog = "output" /\ pc = "done"
    /\ \E s \in 1..Len(MonthSheets) : months[s] = <<2024, 2>> /\ Len(MonthSheets[s].days) = 29
    /\ \E s \in 1..Len(MonthSheets) : months[s] = <<2025, 2>> /\ Len(MonthSheets[s].days) = 28

(***************************************************************************)
(* Properties of the raw-log parser.                                       *)
(***************************************************************************)
\* a timestamp as a number of seconds, for comparing
OrdTs(ts) ==
    ((((ts.y - 2000) * 12 + ts.m) * 31 + ts.d) * 24 + ts.hh) * 3600 + ts.mi * 60 + ts.ss

SameMinute(r1, r2) ==
    /\ r1.employee_id = r2.employee_id
    /\ OrdTs(r1.timestamp) \div 60 = OrdTs(r2.timestamp) \div 60

SortedByTimeThenId(rows) ==
    \A a \in 1..Len(rows) : \A b \in 1..Len(rows) :
        a < b =>
            \/ OrdTs(rows[a].timestamp) < OrdTs(rows[b].timestamp)
            \/ /\ OrdTs(rows[a].timestamp) = OrdTs(rows[b].timestamp)
               /\ rows[a].employee_id <= rows[b].employee_id

\* out is the per-minute dedup of in
DedupOf(in, out) ==
    /\ \A i \in 1..Len(in) :
          LET G     == {k \in 1..Len(in) : SameMinute(in[k], in[i])}
              first == CHOOSE k \in G : \A z \in G :
                           \/ OrdTs(in[k].timestamp) < OrdTs(in[z].timestamp)
                           \/ OrdTs(in[k].timestamp) = OrdTs(in[z].timestamp) /\ k <= z
          IN  /\ Cardinality({j \in 1..Len(out) : SameMinute(out[j], in[i])}) = 1
              /\ \E j \in 1..Len(out) : out[j] = in[first]
    /\ \A j \in 1..Len(out) : \E i \in 1..Len(in) : out[j] = in[i]
    /\ SortedByTimeThenId(out)

\* C6: per-minute dedup keeps exactly one row per (employee_id, minute) group of its
\* input, the one with the earliest timestamp (the first of equal timestamps), with
\* all values unchanged, and returns the rows sorted by (timestamp, employee_id).
C6_DedupKeepsEarliest ==
    [][(prog = "test" /\ pc = "parsed" /\ pc' = "deduped") => DedupOf(df, df')]_vars

\* a dedup that collapsed scans of one minute, two of them at the same second with
\* different signals
C6_Witness ==
    /\ prog = "test" /\ pc = "deduped"
    /\ Len(df) >= 1
    /\ LET in == parse_attendance_text(text)
       IN  /\ \E a \in 1..Len(in) : \E b \in 1..Len(in) :
                 /\ a < b /\ in[a].employee_id = in[b].employee_id
                 /\ in[a].timestamp = in[b].timestamp /\ in[a].signal_1 # in[b].signal_1
           /\ \E a \in 1..Len(in) : \E b \in 1..Len(in) :
                 /\ SameMinute(in[a], in[b]) /\ in[a].timestamp # in[b].timestamp

\* C7: per-minute dedup applied to its own result returns it unchanged, rows and order.
C7_DedupIdempotent ==
    (prog = "test" /\ pc = "deduped") => dedupe_per_minute(df) = df

\* a dedup result of two rows that came from more rows
C7_Witness ==
    /\ prog = "test" /\ pc = "deduped"
    /\ Len(df) >= 2
    /\ Len(df) < Len(parse_attendance_text(text))

\* the texts with the lines of t in another order
Reorderings(t) == {[i \in 1..Len(t) |-> t[p[i]]] : p \in Permutations(1..Len(t))}

KeysOf(rows) == [i \in 1..Len(rows) |-> <<rows[i].employee_id, rows[i].timestamp>>]

\* no two scan lines of t agree on employee id and timestamp and differ in a signal
NoSignalConflict(t) ==
    \A a \in 1..Len(t) : \A b \in 1..Len(t) :
        (t[a].kind = "scan" /\ t[b].kind = "scan" /\ t[a].emp = t[b].emp /\ t[a].ts = t[b].ts)
            => t[a] = t[b]

\* C8 as stated: any reordering of the lines parses to the identical row sequence,
\* and dedups to the identical table.
C8_OrderIndependent ==
    (prog = "test" /\ pc = "parsed") =>
        \A t2 \in Reorderings(text) :
            /\ parse_attendance_text(t2) = df
            /\ dedupe_per_minute(parse_attendance_text(t2)) = dedupe_per_minute(df)

\* C8 amended: any reordering of the lines parses to the same sequence of
\* (employee_id, timestamp), sorted by timestamp then employee_id, and dedups to the
\* same sequence of (employee_id, timestamp); the rows and the dedup are identical
\* in full when no two lines agree on both and differ in a signal.
C8_OrderIndependentKeys ==
    (prog = "test" /\ pc = "parsed") =>
        /\ SortedByTimeThenId(df)
        /\ \A t2 \in Reorderings(text) :
              LET r2 == parse_attendance_text(t2)
              IN  /\ KeysOf(r2) = KeysOf(df)
                  /\ KeysOf(dedupe_per_minute(r2)) = KeysOf(dedupe_per_minute(df))
                  /\ NoSignalConflict(text) =>
                         (r2 = df /\ dedupe_per_minute(r2) = dedupe_per_minute(df))

\* a parse that had to reorder the scan lines of the text
C8_Witness ==
    /\ prog = "test" /\ pc = "parsed"
    /\ Len(df) >= 2
    /\ NoSignalConflict(text)
    /\ KeysOf(TypedRows(FindAll(text))) # KeysOf(df)

\* C9 as stated: the parser fails iff no line matches; otherwise it returns exactly
\* the matched records with a valid timestamp, none of them with a null timestamp.
C9_FailsIffNoMatch ==
    (prog = "test" /\ pc \in {"failed", "parsed"}) =>
        /\ (pc = "failed") <=> (Len(FindAll(text)) = 0)
        /\ pc = "parsed" =>
              /\ \A i \in 1..Len(df) : df[i].timestamp # NaTs
              /\ \A r \in {TypedRows(FindAll(text))[k] : k \in 1..Len(FindAll(text))} :
                     r.timestamp # NaTs
                        => Cardinality({i \in 1..Len(df) : df[i] = r})
                             = Cardinality({k \in 1..Len(FindAll(text)) : TypedRows(FindAll(text))[k] = r})
              /\ Len(df) = Cardinality({k \in 1..Len(FindAll(text)) :
                                           to_datetime(FindAll(text)[k].ts) # NaTs})

====
